---- MODULE Spec2Model ----
(***************************************************************************)
(* The Oracle dialect client of knex (src/dialects/oracle/index.js): the   *)
(* query executor (_query), the streaming executor (_stream), the error    *)
(* classifier (isConnectionError) and the response normalizer              *)
(* (processResponse), as a state machine over one leased connection.       *)
(*                                                                         *)
(* JavaScript values are tagged records, so that undefined, numbers,       *)
(* strings, arrays, plain objects and errors can share a field and be      *)
(* compared; an error message is the sequence of its characters, so that   *)
(* "starts with the prefix at offset 0" is computed, not assumed.          *)
(***************************************************************************)
EXTENDS Integers, Sequences, FiniteSets, TLC

VARIABLES
    pc,          \* where the current operation stands: idle, exec1, exec2, streaming, done
    obj,         \* the query descriptor handed to the operation (mutated by _query)
    connection,  \* the leased connection: its __knex__disposed marker
    promise,     \* the promise the operation returned to its caller
    log,         \* history of the current operation's effects, in program order
    ops,         \* operations completed on this connection so far
    result       \* what processResponse returned (normalizer specification only)

vars == <<pc, obj, connection, promise, log, ops, result>>

-----------------------------------------------------------------------------
(* Bounds of the model. *)

\* operations run one after the other on the connection
MaxOps == 2
\* entries of obj.outParams
MaxOutParams == 3
\* events a sink and its driver result stream emit during one _stream call
MaxEvents == 3
\* rows of a driver response handed to processResponse
MaxRows == 2
\* characters of a SQL text handed to positionBindings
MaxSqlLen == 4
\* bindings handed to prepBindings
MaxBindings == 2

-----------------------------------------------------------------------------
(* JavaScript values. *)

Undefined == [type |-> "undefined"]
Num(n) == [type |-> "number", n |-> n]
Str(s) == [type |-> "string", s |-> s]
Arr(items) == [type |-> "array", items |-> items]
\* a plain object: its own keys in insertion order, and their values
Object(keys, props) == [type |-> "object", keys |-> keys, props |-> props]
Error(name, message) == [type |-> "error", name |-> name, message |-> message]

\* a driver session as acquireRawConnection hands it out: not marked, its
\* prefetch row count set or left alone
Connection(session, prefetchRowCount) ==
    [session |-> session, __knex__disposed |-> Undefined, prefetchRowCount |-> prefetchRowCount]

\* ToBoolean: what `!v` and `if (v)` test.  Arrays, objects and errors are
\* always truthy, the empty array included.
Truthy(v) ==
    CASE v.type = "undefined" -> FALSE
      [] v.type = "number" -> v.n # 0
      [] v.type = "string" -> v.s # ""
      [] v.type = "boolean" -> v.b
      [] OTHER -> TRUE

\* o[key]: an own property, or undefined
Get(o, key) ==
    IF o.type = "object" /\ key \in DOMAIN o.props THEN o.props[key] ELSE Undefined

-----------------------------------------------------------------------------
(* The error classifier, lines 196-233. *)

connectionErrors ==
    << <<"O","R","A","-","0","3","1","1","4">>,
       <<"O","R","A","-","0","3","1","1","3">>,
       <<"O","R","A","-","0","3","1","3","5">>,
       <<"O","R","A","-","1","2","5","1","4">>,
       <<"O","R","A","-","2","2">>,
       <<"O","R","A","-","2","8">>,
       <<"O","R","A","-","3","1">>,
       <<"O","R","A","-","4","5">>,
       <<"O","R","A","-","3","7","8">>,
       <<"O","R","A","-","6","0","2">>,
       <<"O","R","A","-","6","0","3">>,
       <<"O","R","A","-","6","0","9">>,
       <<"O","R","A","-","1","0","1","2">>,
       <<"O","R","A","-","1","0","4","1">>,
       <<"O","R","A","-","1","0","4","3">>,
       <<"O","R","A","-","1","0","8","9">>,
       <<"O","R","A","-","1","0","9","2">>,
       <<"O","R","A","-","2","3","9","6">>,
       <<"O","R","A","-","3","1","2","2">>,
       <<"O","R","A","-","1","2","1","5","3">>,
       <<"O","R","A","-","1","2","5","3","7">>,
       <<"O","R","A","-","1","2","5","4","7">>,
       <<"O","R","A","-","1","2","5","7","0">>,
       <<"O","R","A","-","1","2","5","8","3">>,
       <<"O","R","A","-","2","7","1","4","6">>,
       <<"O","R","A","-","2","8","5","1","1">>,
       <<"O","R","A","-","5","6","6","0","0">>,
       <<"N","J","S","-","0","4","0">>,
       <<"N","J","S","-","0","2","4">>,
       <<"N","J","S","-","0","0","3">> >>

\* message.indexOf(prefix) === 0
StartsWith(message, prefix) ==
    /\ Len(prefix) <= Len(message)
    /\ SubSeq(message, 1, Len(prefix)) = prefix

\* isConnectionError with the prefix searched anywhere: indexOf(prefix) !== -1
isConnectionErrorAnywhere(err) ==
    \E i \in 1..Len(connectionErrors) :
        \E k \in 0..Len(err.message) :
            StartsWith(SubSeq(err.message, k + 1, Len(err.message)), connectionErrors[i])

isConnectionError(err) ==
    \E i \in 1..Len(connectionErrors) : StartsWith(err.message, connectionErrors[i])

-----------------------------------------------------------------------------
(* Errors the driver, the runtime and the client raise. *)

MsgEndOfFile == <<"O","R","A","-","0","3","1","1","3",":"," ","e","n","d","-","o","f","-","f","i","l","e">>
MsgNotConnected == <<"N","J","S","-","0","0","3",":"," ","i","n","v","a","l","i","d"," ","c","o","n","n","e","c","t","i","o","n">>
MsgUnique == <<"O","R","A","-","0","0","0","0","1",":"," ","u","n","i","q","u","e"," ","c","o","n","s","t","r","a","i","n","t">>
MsgWrapped == <<"E","r","r","o","r",":"," ","O","R","A","-","0","3","1","1","3">>
MsgTruncated == <<"O","R","A","-","2">>
MsgEmptyQuery == <<"T","h","e"," ","q","u","e","r","y"," ","i","s"," ","e","m","p","t","y">>
MsgTypeError == <<"C","a","n","n","o","t"," ","r","e","a","d"," ","p","r","o","p","e","r","t","y"," ","'","m","a","p","'"," ","o","f"," ","u","n","d","e","f","i","n","e","d">>

\* what connection.executeAsync rejects with, and what a stream emits as 'error'
DriverErrors ==
    { Error("Error", MsgEndOfFile), Error("Error", MsgNotConnected),
      Error("Error", MsgUnique), Error("Error", MsgWrapped),
      Error("Error", MsgTruncated) }

\* new Error('The query is empty')
EmptyQueryError == Error("Error", MsgEmptyQuery)

\* what `obj.outParams.map` raises when obj.outParams is undefined
OutParamsTypeError == Error("TypeError", MsgTypeError)

-----------------------------------------------------------------------------
(* Query descriptors and driver responses: the inputs of the executor. *)

\* an instance of ReturningHelper, as the compiler leaves it in obj.outParams
ReturningHelper == Object(<<"columnName">>, [k \in {"columnName"} |-> Str("id")])

\* obj.returning: absent, an empty list, one column, two columns
Returnings ==
    { Undefined, Arr(<<>>), Arr(<<Str("id")>>), Arr(<<Str("id"), Str("name")>>) }

\* obj.outParams for a given obj.returning.  A list of columns comes with one
\* to MaxOutParams output parameters; no returning comes with none; an empty
\* list comes with none or, from a compiler that tests `returning` the way
\* line 148 does, with one.
OutParamsOf(returning) ==
    IF returning = Undefined THEN { Undefined }
    ELSE IF returning.items = <<>> THEN { Undefined, Arr(<<ReturningHelper>>) }
    ELSE { Arr([i \in 1..n |-> ReturningHelper]) : n \in 1..MaxOutParams }

Descriptor(sql, method, returning, outParams) ==
    [ sql |-> sql,
      bindings |-> Arr(<<Num(1)>>),
      method |-> method,
      returning |-> returning,
      outParams |-> outParams,
      returningSql |-> IF outParams = Undefined THEN Undefined
                       ELSE Str("select .. from t where ROWID = :1"),
      pluck |-> Undefined,
      output |-> Undefined,
      response |-> Undefined,
      rowsAffected |-> Undefined ]

Sqls == { Str(""), Str("insert into t values (:1)") }

QueryDescriptors ==
    UNION { { Descriptor(sql, "insert", r, p) : sql \in Sqls, p \in OutParamsOf(r) } :
            r \in Returnings }

StreamDescriptor == Descriptor(Str("select * from t"), "select", Undefined, Undefined)

\* no descriptor: the connection is idle
NoDescriptor == Undefined

\* What the driver answers an execute with.  A statement with output
\* parameters answers with its update count and one slot per parameter; the
\* driver names the slots returnParam, returnParam1, returnParam2, ...
ResponseAllSlots ==
    Object(<<"updateCount", "returnParam", "returnParam1", "returnParam2",
             "returnParam3", "returnParam4">>,
           [k \in {"updateCount", "returnParam", "returnParam1", "returnParam2",
                   "returnParam3", "returnParam4"} |->
              CASE k = "updateCount" -> Num(1)
                [] k = "returnParam" -> Str("AAAa")
                [] k = "returnParam1" -> Str("AAAb")
                [] k = "returnParam2" -> Str("AAAc")
                [] k = "returnParam3" -> Str("AAAd")
                [] k = "returnParam4" -> Str("AAAe")])

ResponseOneSlot ==
    Object(<<"updateCount", "returnParam">>,
           [k \in {"updateCount", "returnParam"} |->
              IF k = "updateCount" THEN Num(2) ELSE Str("AAAz")])

\* a select answers with an array of rows, which has no updateCount
ResponseRows == Arr(<<Object(<<"id">>, [k \in {"id"} |-> Num(7)])>>)

DriverResponses == { ResponseAllSlots, ResponseOneSlot, ResponseRows }

-----------------------------------------------------------------------------
(* The promise an operation returns, and the history of its effects. *)

Pending == [state |-> "pending", value |-> Undefined]

\* resolver(value) and rejecter(value): a promise is settled by the first call
\* and ignores the later ones
Settle(p, state, value) ==
    IF p.state = "pending" THEN [state |-> state, value |-> value] ELSE p

Ev(ev, val, aux) == [ev |-> ev, val |-> val, aux |-> aux]

\* the part of the state a handler works on
Scope == [connection |-> connection, promise |-> promise, log |-> log]

-----------------------------------------------------------------------------
(* _query, lines 142-165. *)

\* ReturnParamKey with the slots after the first numbered from 2
ReturnParamKeyFromTwo(i) == "returnParam" \o (IF i # 0 THEN ToString(i + 1) ELSE "")

\* the name of the i-th output-parameter slot, i counted from 0 (line 150)
ReturnParamKey(i) == "returnParam" \o (IF i # 0 THEN ToString(i) ELSE "")

\* lines 149-151
RowIds(outParams, response) ==
    Arr([j \in 1..Len(outParams.items) |-> Get(response, ReturnParamKey(j - 1))])

\* QueryCatch that does not rethrow: the chain resolves with undefined
QueryCatchSwallows(sc, err) ==
    LET marked == IF isConnectionError(err)
                  THEN [sc EXCEPT !.connection.__knex__disposed = err,
                                  !.log = Append(@, Ev("dispose", err, Undefined))]
                  ELSE sc
    IN  [marked EXCEPT !.promise = Settle(@, "fulfilled", Undefined),
                       !.log = Append(@, Ev("resolve", Undefined, Undefined))]

\* QueryCatch that neither rethrows nor returns: the chain never settles
QueryCatchAbandons(sc, err) ==
    IF isConnectionError(err)
    THEN [sc EXCEPT !.connection.__knex__disposed = err,
                    !.log = Append(@, Ev("dispose", err, Undefined))]
    ELSE sc

\* the .catch handler, lines 159-164
QueryCatch(sc, err) ==
    LET marked == IF isConnectionError(err)
                  THEN [sc EXCEPT !.connection.__knex__disposed = err,
                                  !.log = Append(@, Ev("dispose", err, Undefined))]
                  ELSE sc
    IN  [marked EXCEPT !.promise = Settle(@, "rejected", err),
                       !.log = Append(@, Ev("reject", err, Undefined))]

\* the second .then handler, lines 154-158
Finalize(o, response) ==
    [o EXCEPT !.response = response, !.rowsAffected = Get(response, "updateCount")]

QueryFails(sc) ==
    /\ pc' = "done"
    /\ connection' = sc.connection
    /\ promise' = sc.promise
    /\ log' = sc.log
    /\ UNCHANGED <<obj, ops, result>>

\* QueryCompletes that takes a success as proof the connection is healthy
QueryCompletesClears(response) ==
    /\ pc' = "done"
    /\ obj' = Finalize(obj, response)
    /\ promise' = Settle(promise, "fulfilled", obj')
    /\ log' = log \o <<Ev("answer", response, Undefined), Ev("resolve", Undefined, Undefined)>>
    /\ connection' = [connection EXCEPT !.__knex__disposed = Undefined]
    /\ UNCHANGED <<ops, result>>

QueryCompletes(response) ==
    /\ pc' = "done"
    /\ obj' = Finalize(obj, response)
    /\ promise' = Settle(promise, "fulfilled", obj')
    /\ log' = log \o <<Ev("answer", response, Undefined), Ev("resolve", Undefined, Undefined)>>
    /\ UNCHANGED <<connection, ops, result>>

\* _query without the check of line 143
QueryUnvalidated(o) ==
    /\ pc = "idle"
    /\ ops < MaxOps
    /\ obj' = o
    /\ pc' = "exec1"
    /\ promise' = Pending
    /\ log' = <<Ev("execute", o.sql, o.bindings)>>
    /\ UNCHANGED <<connection, ops, result>>

\* the call itself, lines 143-146
_query(o) ==
    /\ pc = "idle"
    /\ ops < MaxOps
    /\ obj' = o
    /\ IF ~Truthy(o.sql)
       THEN /\ pc' = "done"
            /\ promise' = [state |-> "thrown", value |-> EmptyQueryError]
            /\ log' = <<Ev("throw", EmptyQueryError, Undefined)>>
       ELSE /\ pc' = "exec1"
            /\ promise' = Pending
            /\ log' = <<Ev("execute", o.sql, o.bindings)>>
    /\ UNCHANGED <<connection, ops, result>>

\* ExecuteSucceeds that never fetches: the first response is final
ExecuteSucceedsNoFetch(response) ==
    /\ pc = "exec1"
    /\ QueryCompletes(response)

\* ExecuteSucceeds that records the first update count before it fetches
ExecuteSucceedsKeepsCount(response) ==
    /\ pc = "exec1"
    /\ IF ~Truthy(obj.returning)
       THEN QueryCompletes(response)
       ELSE IF obj.outParams = Undefined
       THEN QueryFails(QueryCatch([Scope EXCEPT !.log = Append(@, Ev("answer", response, Undefined))],
                                  OutParamsTypeError))
       ELSE /\ pc' = "exec2"
            /\ obj' = [obj EXCEPT !.rowsAffected = Get(response, "updateCount")]
            /\ log' = log \o <<Ev("answer", response, Undefined),
                               Ev("execute", obj.returningSql, RowIds(obj.outParams, response))>>
            /\ UNCHANGED <<connection, promise, ops, result>>

\* the first execute succeeds: the first .then handler, lines 147-153
ExecuteSucceeds(response) ==
    /\ pc = "exec1"
    /\ IF ~Truthy(obj.returning)
       THEN QueryCompletes(response)
       ELSE IF obj.outParams = Undefined
       THEN QueryFails(QueryCatch([Scope EXCEPT !.log = Append(@, Ev("answer", response, Undefined))],
                                  OutParamsTypeError))
       ELSE /\ pc' = "exec2"
            /\ log' = log \o <<Ev("answer", response, Undefined),
                               Ev("execute", obj.returningSql, RowIds(obj.outParams, response))>>
            /\ UNCHANGED <<obj, connection, promise, ops, result>>

\* the first execute fails
ExecuteFails(err) ==
    /\ pc = "exec1"
    /\ QueryFails(QueryCatch([Scope EXCEPT !.log = Append(@, Ev("error", err, Undefined))], err))

\* the follow-up execute of returningSql succeeds
ReturningSucceeds(response) ==
    /\ pc = "exec2"
    /\ QueryCompletes(response)

\* the follow-up execute of returningSql fails
ReturningFails(err) ==
    /\ pc = "exec2"
    /\ QueryFails(QueryCatch([Scope EXCEPT !.log = Append(@, Ev("error", err, Undefined))], err))

-----------------------------------------------------------------------------
(* _stream, lines 118-138. *)

StreamEvents == { "end", "sink error", "queryStream error" }

\* events the sink and the driver result stream have emitted in this call
Emitted == Len(SelectSeq(log, LAMBDA e : e.ev \in StreamEvents))

Ended == \E i \in 1..Len(log) : log[i].ev = "end"

\* SinkOnError that rejects without classifying the error
SinkOnErrorUnclassified(sc, err) ==
    [sc EXCEPT !.promise = Settle(@, "rejected", err),
               !.log = Append(@, Ev("reject", err, Undefined))]

\* SinkOnError that looks at the error only while the outcome is open
SinkOnErrorWhilePending(sc, err) ==
    LET marked == IF sc.promise.state = "pending" /\ isConnectionError(err)
                  THEN [sc EXCEPT !.connection.__knex__disposed = err,
                                  !.log = Append(@, Ev("dispose", err, Undefined))]
                  ELSE sc
    IN  [marked EXCEPT !.promise = Settle(@, "rejected", err),
                       !.log = Append(@, Ev("reject", err, Undefined))]

\* the sink's 'error' listener, lines 120-125
SinkOnError(sc, err) ==
    LET marked == IF isConnectionError(err)
                  THEN [sc EXCEPT !.connection.__knex__disposed = err,
                                  !.log = Append(@, Ev("dispose", err, Undefined))]
                  ELSE sc
    IN  [marked EXCEPT !.promise = Settle(@, "rejected", err),
                       !.log = Append(@, Ev("reject", err, Undefined))]

\* QueryStreamOnError that only re-emits, leaving the rejection to a sink
\* listener that does not reject
QueryStreamOnErrorUnrejected(sc, error) ==
    [sc EXCEPT !.log = Append(@, Ev("emit", error, Undefined))]

\* QueryStreamOnError that classifies the error itself before it re-emits it
QueryStreamOnErrorMarks(sc, error) ==
    LET rejected == [sc EXCEPT !.promise = Settle(@, "rejected", error),
                               !.log = Append(@, Ev("reject", error, Undefined))]
        marked   == IF isConnectionError(error)
                    THEN [rejected EXCEPT !.connection.__knex__disposed = error,
                                          !.log = Append(@, Ev("dispose", error, Undefined))]
                    ELSE rejected
        emitted  == [marked EXCEPT !.log = Append(@, Ev("emit", error, Undefined))]
    IN  SinkOnError(emitted, error)

\* the driver result stream's 'error' listener, lines 133-136
QueryStreamOnError(sc, error) ==
    LET rejected == [sc EXCEPT !.promise = Settle(@, "rejected", error),
                               !.log = Append(@, Ev("reject", error, Undefined))]
        emitted  == [rejected EXCEPT !.log = Append(@, Ev("emit", error, Undefined))]
    IN  SinkOnError(emitted, error)

StreamStep(sc) ==
    /\ connection' = sc.connection
    /\ promise' = sc.promise
    /\ log' = sc.log
    /\ UNCHANGED <<pc, obj, ops, result>>

\* the call itself: listeners registered, result stream opened and piped
_stream(o) ==
    /\ pc = "idle"
    /\ ops < MaxOps
    /\ pc' = "streaming"
    /\ obj' = o
    /\ promise' = Pending
    /\ log' = <<Ev("queryStream", o.sql, o.bindings)>>
    /\ UNCHANGED <<connection, ops, result>>

\* the sink emits 'end': line 126
SinkEnd ==
    /\ pc = "streaming"
    /\ Emitted < MaxEvents
    /\ ~Ended
    /\ StreamStep([Scope EXCEPT !.promise = Settle(@, "fulfilled", Undefined),
                                !.log = @ \o <<Ev("end", Undefined, Undefined),
                                               Ev("resolve", Undefined, Undefined)>>])

\* the sink emits 'error'
SinkError(err) ==
    /\ pc = "streaming"
    /\ Emitted < MaxEvents
    /\ StreamStep(SinkOnError([Scope EXCEPT !.log = Append(@, Ev("sink error", err, Undefined))], err))

\* the driver result stream emits 'error'
QueryStreamError(error) ==
    /\ pc = "streaming"
    /\ Emitted < MaxEvents
    /\ StreamStep(QueryStreamOnError(
           [Scope EXCEPT !.log = Append(@, Ev("queryStream error", error, Undefined))], error))

-----------------------------------------------------------------------------
(* The runner: one operation at a time on the leased connection. *)

\* the caller has its outcome and the connection goes on to the next operation
Release ==
    /\ pc \in {"done", "streaming"}
    /\ promise.state # "pending"
    /\ pc' = "idle"
    /\ obj' = NoDescriptor
    /\ promise' = Pending
    /\ log' = <<>>
    /\ ops' = ops + 1
    /\ UNCHANGED <<connection, result>>

Init ==
    /\ pc = "idle"
    /\ obj = NoDescriptor
    /\ connection = Connection(1, Undefined)
    /\ promise = Pending
    /\ log = <<>>
    /\ ops = 0
    /\ result = Undefined

Next ==
    \/ \E o \in QueryDescriptors : _query(o)
    \/ \E response \in DriverResponses : ExecuteSucceeds(response)
    \/ \E err \in DriverErrors : ExecuteFails(err)
    \/ \E response \in DriverResponses : ReturningSucceeds(response)
    \/ \E err \in DriverErrors : ReturningFails(err)
    \/ _stream(StreamDescriptor)
    \/ SinkEnd
    \/ \E err \in DriverErrors : SinkError(err)
    \/ \E error \in DriverErrors : QueryStreamError(error)
    \/ Release

Spec == Init /\ [][Next]_vars

-----------------------------------------------------------------------------
(* processResponse, lines 168-193, and the lodash helpers it calls. *)

\* a function value: obj.output, lodash's values
Function(name) == [type |-> "function", name |-> name]

\* obj.output.call(runner, response): whatever the caller's transform returns
Call(f, response) == [type |-> "returned", by |-> f.name, arg |-> response]

\* array[0]
First(a) == IF a.type = "array" /\ Len(a.items) > 0 THEN a.items[1] ELSE Undefined

\* array.length
Length(a) == IF a.type = "array" THEN Len(a.items) ELSE 0

\* lodash values(row): the row's own values, in key order
values(row) ==
    IF row.type = "object" THEN Arr([i \in 1..Len(row.keys) |-> row.props[row.keys[i]]])
    ELSE Arr(<<>>)

\* lodash's iteratee: identity for undefined, a property getter for a
\* string, the function itself otherwise
Iteratee(f, x) ==
    CASE f.type = "undefined" -> x
      [] f.type = "string" -> Get(x, f.s)
      [] OTHER -> values(x)

\* lodash map(collection, iteratee) on an array (an empty array otherwise)
map(collection, f) ==
    IF collection.type = "array"
    THEN Arr([i \in 1..Len(collection.items) |-> Iteratee(f, collection.items[i])])
    ELSE Arr(<<>>)

RECURSIVE FlattenItems(_)
FlattenItems(items) ==
    IF items = <<>> THEN <<>>
    ELSE (IF Head(items).type = "array" THEN Head(items).items ELSE <<Head(items)>>)
         \o FlattenItems(Tail(items))

\* flatten that leaves the array as it is
flattenNot(array) == array

\* lodash flatten(array): one level
flatten(array) == Arr(FlattenItems(array.items))

\* Plucked that maps whenever obj.pluck is set, whatever the method
PluckedWhenSet(o, response) ==
    IF Truthy(o.pluck) THEN map(response, o.pluck) ELSE response

\* line 176
Plucked(o, response) ==
    IF o.method = "pluck" THEN map(response, o.pluck) ELSE response

processResponse(o) ==
    IF Truthy(o.output) THEN Call(o.output, o.response)
    ELSE CASE o.method \in {"select", "pluck", "first"} ->
                IF o.method = "first" THEN First(Plucked(o, o.response))
                ELSE Plucked(o, o.response)
           [] o.method \in {"insert", "del", "update", "counter"} ->
                IF Truthy(o.returning)
                THEN IF Length(o.returning) > 1 \/ First(o.returning) = Str("*")
                     THEN o.response
                     ELSE flatten(map(o.response, Function("values")))
                ELSE o.rowsAffected
           [] OTHER -> o.response

-----------------------------------------------------------------------------
(* Descriptors as they reach processResponse: the inputs of the normalizer. *)

\* a row of the table t(id, name), restricted to the given columns
Row(columns, id, name) ==
    Object(columns, [k \in { columns[i] : i \in 1..Len(columns) } |->
                        IF k = "id" THEN Num(id) ELSE Str(name)])

RowsOf(columns) == { Row(columns, 1, "ann"), Row(columns, 2, "bob") }

\* arrays of at most MaxRows rows taken from the given set
RowArrays(rows) == { Arr(items) : items \in UNION { [1..n -> rows] : n \in 0..MaxRows } }

AllColumns == <<"id", "name">>

\* what a select answers with: rows of any of the table's columns
SelectedRows == RowsOf(<<"id">>) \cup RowsOf(<<"name">>) \cup RowsOf(AllColumns)

\* the columns returningSql selects for a given obj.returning
ReturnedColumns(returning) ==
    IF \E i \in 1..Len(returning.items) : returning.items[i] = Str("*") THEN AllColumns
    ELSE [i \in 1..Len(returning.items) |-> returning.items[i].s]

\* obj.returning of a statement that went through the follow-up fetch
FetchedReturnings ==
    { Arr(<<>>), Arr(<<Str("id")>>), Arr(<<Str("name")>>), Arr(<<Str("*")>>),
      Arr(<<Str("id"), Str("name")>>) }

Outputs == { Undefined, Function("output") }

\* select, pluck, first: rows, with or without obj.pluck
ReadDescriptors ==
    { [Descriptor(Str("select * from t"), method, Undefined, Undefined)
          EXCEPT !.pluck = pluck, !.output = output, !.response = response] :
        method \in {"select", "pluck", "first"},
        pluck \in {Undefined, Str("id"), Str("name")},
        output \in Outputs,
        response \in RowArrays(SelectedRows) }

\* insert, del, update, counter without returning: the first response is final
WriteDescriptors ==
    { Finalize([Descriptor(Str("update t set name = :1"), method, Undefined, Undefined)
                   EXCEPT !.output = output], response) :
        method \in {"insert", "del", "update", "counter"},
        output \in Outputs,
        response \in {ResponseAllSlots, ResponseOneSlot} }

\* insert, del, update, counter with returning: the rows returningSql fetched
ReturningDescriptors ==
    UNION { { Finalize([Descriptor(Str("update t set name = :1"), method, returning,
                                   Arr(<<ReturningHelper>>))
                           EXCEPT !.output = output], response) :
                method \in {"insert", "del", "update", "counter"},
                output \in Outputs,
                response \in RowArrays(RowsOf(ReturnedColumns(returning))) } :
            returning \in FetchedReturnings }

\* any other method
RawDescriptors ==
    { Finalize([Descriptor(Str("begin null; end;"), "raw", Undefined, Undefined)
                   EXCEPT !.output = output], response) :
        output \in Outputs,
        response \in {ResponseOneSlot} \cup RowArrays(RowsOf(<<"id">>)) }

NormalizeDescriptors ==
    ReadDescriptors \cup WriteDescriptors \cup ReturningDescriptors \cup RawDescriptors

\* the runner hands a finished descriptor to processResponse
Normalize ==
    /\ pc = "normalize"
    /\ pc' = "normalized"
    /\ result' = processResponse(obj)
    /\ UNCHANGED <<obj, connection, promise, log, ops>>

InitNormalize ==
    /\ pc = "normalize"
    /\ obj \in NormalizeDescriptors
    /\ connection = Connection(1, Undefined)
    /\ promise = Pending
    /\ log = <<>>
    /\ ops = 0
    /\ result = Undefined

NextNormalize == Normalize

SpecNormalize == InitNormalize /\ [][NextNormalize]_vars

-----------------------------------------------------------------------------
(* positionBindings, lines 110-116. *)

\* `${questionCount}`: the decimal digits of a number, as characters
RECURSIVE Digits(_)
Digits(n) == IF n < 10 THEN <<ToString(n)>> ELSE Digits(n \div 10) \o <<ToString(n % 10)>>

\* sql.replace(/\?/g, fn): every match, left to right, replaced by what the
\* callback returns after it has counted the match
RECURSIVE ReplaceQuestions(_, _)
ReplaceQuestions(sql, questionCount) ==
    IF sql = <<>> THEN <<>>
    ELSE IF Head(sql) = "?"
    THEN <<":">> \o Digits(questionCount + 1) \o ReplaceQuestions(Tail(sql), questionCount + 1)
    ELSE <<Head(sql)>> \o ReplaceQuestions(Tail(sql), questionCount)

\* positionBindings with a pattern that is not global: the first match only
positionBindingsFirstOnly(sql) ==
    IF \E k \in 1..Len(sql) : sql[k] = "?"
    THEN LET k == CHOOSE k \in 1..Len(sql) : sql[k] = "?" /\ \A j \in 1..(k - 1) : sql[j] # "?"
         IN  SubSeq(sql, 1, k - 1) \o <<":", "1">> \o SubSeq(sql, k + 1, Len(sql))
    ELSE sql

positionBindings(sql) == ReplaceQuestions(sql, 0)

\* the characters SQL texts are made of: the placeholder, and characters of
\* text already rewritten
SqlChars == { "?", ":", "1", "a" }

SqlTexts == UNION { [1..n -> SqlChars] : n \in 0..MaxSqlLen }

\* the compiler's text is rewritten
Position ==
    /\ pc = "position"
    /\ pc' = "positioned"
    /\ result' = positionBindings(obj)
    /\ UNCHANGED <<obj, connection, promise, log, ops>>

\* the rewritten text is rewritten again
Reposition ==
    /\ pc = "positioned"
    /\ pc' = "repositioned"
    /\ log' = <<result>>
    /\ result' = positionBindings(result)
    /\ UNCHANGED <<obj, connection, promise, ops>>

InitPosition ==
    /\ pc = "position"
    /\ obj \in SqlTexts
    /\ connection = Connection(1, Undefined)
    /\ promise = Pending
    /\ log = <<>>
    /\ ops = 0
    /\ result = <<>>

NextPosition == Position \/ Reposition

SpecPosition == InitPosition /\ [][NextPosition]_vars

-----------------------------------------------------------------------------
(* prepBindings, lines 64-76. *)

Bool(b) == [type |-> "boolean", b |-> b]

\* a Buffer holding the bytes of a text
Buffer(text) == [type |-> "buffer", text |-> text]

\* new this.driver.OutParam(kind)
OutParam(kind) == [type |-> "outparam", kind |-> kind]

\* the driver module, when it has been loaded
Driver == Object(<<"OCCISTRING">>, [k \in {"OCCISTRING"} |-> Str("OCCISTRING")])

\* value instanceof ReturningHelper
IsReturningHelper(value) == value.type = "object" /\ value.keys = <<"columnName">>

\* bufferToString of query/string: the buffer decoded to text
bufferToString(value) == Str(value.text)

\* PrepValue with the two integers exchanged
PrepValueFlipped(driver, value) ==
    IF IsReturningHelper(value) /\ Truthy(driver) THEN OutParam(Get(driver, "OCCISTRING"))
    ELSE IF value.type = "boolean" THEN (IF value.b THEN Num(0) ELSE Num(1))
    ELSE IF value.type = "buffer" THEN bufferToString(value)
    ELSE value

\* the callback of lines 65-75
PrepValue(driver, value) ==
    IF IsReturningHelper(value) /\ Truthy(driver) THEN OutParam(Get(driver, "OCCISTRING"))
    ELSE IF value.type = "boolean" THEN (IF value.b THEN Num(1) ELSE Num(0))
    ELSE IF value.type = "buffer" THEN bufferToString(value)
    ELSE value

prepBindings(driver, bindings) ==
    IF bindings.type = "array"
    THEN Arr([i \in 1..Len(bindings.items) |-> PrepValue(driver, bindings.items[i])])
    ELSE Arr(<<>>)

\* the values a binding takes
BindingValues ==
    { ReturningHelper, Bool(TRUE), Bool(FALSE), Buffer("abc"), Num(0), Num(1), Num(7),
      Str("abc"), Undefined }

BindingLists == { Arr(items) : items \in UNION { [1..n -> BindingValues] : n \in 0..MaxBindings } }

\* the bindings of a query are translated for the driver
Prep ==
    /\ pc = "prep"
    /\ pc' = "prepared"
    /\ result' = prepBindings(obj.driver, obj.bindings)
    /\ UNCHANGED <<obj, connection, promise, log, ops>>

\* the translated bindings are translated again
PrepAgain ==
    /\ pc = "prepared"
    /\ pc' = "prepared again"
    /\ log' = <<result>>
    /\ result' = prepBindings(obj.driver, result)
    /\ UNCHANGED <<obj, connection, promise, ops>>

InitBindings ==
    /\ pc = "prep"
    /\ obj \in [driver : {Undefined, Driver}, bindings : BindingLists]
    /\ connection = Connection(1, Undefined)
    /\ promise = Pending
    /\ log = <<>>
    /\ ops = 0
    /\ result = Undefined

NextBindings == Prep \/ PrepAgain

SpecBindings == InitBindings /\ [][NextBindings]_vars

-----------------------------------------------------------------------------
(* acquireRawConnection, lines 80-96, called by the pool for each new
   connection.  In this specification log is the history of all the calls. *)

\* this.connectionSettings: prefetchRowCount is optional, a positive integer
ConnectionSettings ==
    { [database |-> Str("XE"), prefetchRowCount |-> n] : n \in {Undefined, Num(1), Num(100)} }

\* the sessions the driver opens
Sessions == {1, 2}

\* the call: one driver.connect, lines 81-83
acquireRawConnection ==
    /\ pc = "pool"
    /\ ops < MaxOps
    /\ pc' = "connecting"
    /\ promise' = Pending
    /\ connection' = Undefined
    /\ log' = Append(log, Ev("connect", Str("XE"), obj.prefetchRowCount))
    /\ UNCHANGED <<obj, ops, result>>

\* ConnectFails that asks the driver again instead of failing
ConnectFailsRetries(err) ==
    /\ pc = "connecting"
    /\ log' = log \o <<Ev("connect error", err, Undefined),
                       Ev("connect", Str("XE"), obj.prefetchRowCount)>>
    /\ UNCHANGED <<pc, obj, connection, promise, ops, result>>

\* the driver calls back with an error: line 85
ConnectFails(err) ==
    /\ pc = "connecting"
    /\ pc' = "connect failed"
    /\ promise' = Settle(promise, "rejected", err)
    /\ log' = log \o <<Ev("connect error", err, Undefined), Ev("reject", err, Undefined)>>
    /\ UNCHANGED <<obj, connection, ops, result>>

\* the driver calls back with a session: lines 86-92
ConnectSucceeds(session) ==
    /\ pc = "connecting"
    /\ pc' = "connected"
    /\ connection' = IF Truthy(obj.prefetchRowCount)
                     THEN Connection(session, obj.prefetchRowCount)
                     ELSE Connection(session, Undefined)
    /\ promise' = Settle(promise, "fulfilled", connection')
    /\ log' = log
              \o <<Ev("promisifyAll", Num(session), Undefined)>>
              \o (IF Truthy(obj.prefetchRowCount)
                  THEN <<Ev("setPrefetchRowCount", obj.prefetchRowCount, Undefined)>>
                  ELSE <<>>)
              \o <<Ev("resolve", Num(session), Undefined)>>
    /\ UNCHANGED <<obj, ops, result>>

\* the pool has the outcome of the call
PoolSettles ==
    /\ pc \in {"connected", "connect failed"}
    /\ pc' = "pool"
    /\ ops' = ops + 1
    /\ UNCHANGED <<obj, connection, promise, log, result>>

InitAcquire ==
    /\ pc = "pool"
    /\ obj \in ConnectionSettings
    /\ connection = Undefined
    /\ promise = Pending
    /\ log = <<>>
    /\ ops = 0
    /\ result = Undefined

NextAcquire ==
    \/ acquireRawConnection
    \/ \E err \in DriverErrors : ConnectFails(err)
    \/ \E session \in Sessions : ConnectSucceeds(session)
    \/ PoolSettles

SpecAcquire == InitAcquire /\ [][NextAcquire]_vars

-----------------------------------------------------------------------------
(* The executor with a driver that answers every execute it is given. *)

\* the driver settles the promise of an executeAsync call, lines 145-146 and 152
DriverAnswers ==
    \/ \E response \in DriverResponses : ExecuteSucceeds(response)
    \/ \E err \in DriverErrors : ExecuteFails(err)
    \/ \E response \in DriverResponses : ReturningSucceeds(response)
    \/ \E err \in DriverErrors : ReturningFails(err)

SpecLive == Init /\ [][Next]_vars /\ WF_vars(DriverAnswers)

-----------------------------------------------------------------------------
(* Reading the history of the current operation. *)

At(ev) == { i \in 1..Len(log) : log[i].ev = ev }

SetMin(S) == CHOOSE i \in S : \A j \in S : i <= j

SetMax(S) == CHOOSE i \in S : \A j \in S : j <= i

InQuery == pc \in {"exec1", "exec2", "done"}

\* obj.returning names at least one column
ReturningRequested(o) == o.returning # Undefined /\ Len(o.returning.items) > 0

\* the message carries a catalog prefix at offset 0, character by character
CatalogPrefixAtZero(message) ==
    \E i \in 1..Len(connectionErrors) :
        /\ Len(connectionErrors[i]) <= Len(message)
        /\ \A k \in 1..Len(connectionErrors[i]) : message[k] = connectionErrors[i][k]

Rejected(err) == [state |-> "rejected", value |-> err]

-----------------------------------------------------------------------------
(* The claims. *)

\* C1: for a descriptor with returning requested, no follow-up execute is
\* issued before the first execute has succeeded; once it has, exactly one
\* follow-up execute is issued, of returningSql, after the first answer; and
\* when the follow-up succeeds, obj.response is the second answer (not the
\* first) and obj.rowsAffected is that answer's updateCount.
C1_ReturningFollowUp ==
    (InQuery /\ ReturningRequested(obj) /\ Truthy(obj.sql)) =>
        /\ At("answer") = {} => Cardinality(At("execute")) = 1
        /\ At("answer") # {} =>
              /\ Cardinality(At("execute")) = 2
              /\ SetMin(At("execute")) < SetMin(At("answer"))
              /\ SetMin(At("answer")) < SetMax(At("execute"))
              /\ log[SetMax(At("execute"))].val = obj.returningSql
        /\ (pc = "done" /\ promise.state = "fulfilled") =>
              /\ Cardinality(At("answer")) = 2
              /\ SetMax(At("execute")) < SetMax(At("answer"))
              /\ obj.response = log[SetMax(At("answer"))].val
              /\ obj.rowsAffected = Get(log[SetMax(At("answer"))].val, "updateCount")
              /\ promise.value = obj

\* C1 witness: a returning query completed whose two answers differ, the
\* descriptor holding the second
C1_Witness ==
    /\ pc = "done"
    /\ promise.state = "fulfilled"
    /\ ReturningRequested(obj)
    /\ Cardinality(At("answer")) = 2
    /\ log[SetMin(At("answer"))].val # log[SetMax(At("answer"))].val
    /\ obj.response = log[SetMax(At("answer"))].val
    /\ obj.rowsAffected = Undefined

\* C2, as claimed: a successful _query on a descriptor whose returning is
\* absent or empty performed exactly one execute, and the descriptor holds
\* the first response and its update count.
C2_NoReturningOneExecute ==
    (pc = "done" /\ promise.state = "fulfilled" /\ ~ReturningRequested(obj)) =>
        /\ Cardinality(At("execute")) = 1
        /\ obj.response = log[SetMin(At("answer"))].val
        /\ obj.rowsAffected = Get(log[SetMin(At("answer"))].val, "updateCount")

\* C3: when a round-trip of _query fails with an error whose message starts
\* with a catalog prefix, the step sets connection.__knex__disposed to that
\* error; when the message carries no catalog prefix at offset 0, the step
\* leaves the connection as it was.
C3_FatalMarksConnection ==
    [][ \A err \in DriverErrors :
          (/\ pc \in {"exec1", "exec2"}
           /\ pc' = "done"
           /\ \E i \in 1..Len(log') : log'[i] = Ev("error", err, Undefined))
          => IF CatalogPrefixAtZero(err.message)
             THEN connection'.__knex__disposed = err
             ELSE connection' = connection ]_vars

\* C3 witness: the follow-up execute failed with a query-level error on a
\* connection an earlier operation had marked, and the mark is the old one
C3_Witness ==
    /\ pc = "done"
    /\ Cardinality(At("execute")) = 2
    /\ \E i \in At("error") :
          /\ ~CatalogPrefixAtZero(log[i].val.message)
          /\ connection.__knex__disposed # Undefined
          /\ connection.__knex__disposed # log[i].val

\* C4: once an execute of _query has failed, the promise is rejected with
\* exactly the error the driver raised and no execute follows the failure.
C4_ErrorPropagates ==
    \A i \in At("error") :
        /\ pc = "done"
        /\ promise = Rejected(log[i].val)
        /\ \A j \in At("execute") : j < i

\* C4 witness: the follow-up execute failed with a connection-fatal error
C4_Witness ==
    /\ pc = "done"
    /\ Cardinality(At("execute")) = 2
    /\ \E i \in At("error") :
          /\ CatalogPrefixAtZero(log[i].val.message)
          /\ promise = Rejected(log[i].val)

\* C5: _query on a descriptor with empty sql ends at once with the
\* empty-query error, issues no driver call and changes neither the
\* connection nor the descriptor's response and rowsAffected.
C5_EmptyQuery ==
    [][ (pc = "idle" /\ pc' \in {"exec1", "done"} /\ ~Truthy(obj'.sql)) =>
          /\ pc' = "done"
          /\ promise' = [state |-> "thrown", value |-> EmptyQueryError]
          /\ \A i \in 1..Len(log') : log'[i].ev \notin {"execute", "queryStream"}
          /\ connection' = connection
          /\ obj'.response = Undefined
          /\ obj'.rowsAffected = Undefined ]_vars

\* C5 witness: an empty query refused on a connection already marked
C5_Witness ==
    /\ pc = "done"
    /\ ~Truthy(obj.sql)
    /\ promise.state = "thrown"
    /\ connection.__knex__disposed # Undefined

\* the events the sink and the result stream have emitted, in order
StreamLog == SelectSeq(log, LAMBDA e : e.ev \in StreamEvents)

\* C6: during a _stream call the promise is pending until the first event,
\* and from then on holds the outcome of that first event: fulfilled if it
\* was the sink's end, rejected with its error otherwise, whatever follows.
C6_FirstTerminalEventWins ==
    pc = "streaming" =>
        IF StreamLog = <<>> THEN promise = Pending
        ELSE IF StreamLog[1].ev = "end" THEN promise = [state |-> "fulfilled", value |-> Undefined]
        ELSE promise = Rejected(StreamLog[1].val)

\* C6 witness: a sink error, then a driver-stream error re-emitted to the
\* sink, then the sink's end: the promise holds the first
C6_Witness ==
    /\ pc = "streaming"
    /\ Len(StreamLog) = 3
    /\ StreamLog[1].ev = "sink error"
    /\ StreamLog[2].ev = "queryStream error"
    /\ StreamLog[2].val # StreamLog[1].val
    /\ StreamLog[3].ev = "end"
    /\ promise = Rejected(StreamLog[1].val)

\* the rejecter call that settled the promise
SettlingReject == SetMin(At("reject"))

\* C7, as claimed: when an operation failed with a connection-fatal error,
\* the marker was written with that error before rejecter was called.
C7_MarkedBeforeRejected ==
    (promise.state = "rejected" /\ CatalogPrefixAtZero(promise.value.message)) =>
        \E i \in At("dispose") : i < SettlingReject /\ log[i].val = promise.value

\* C7, amended: when an operation failed with a connection-fatal error, the
\* marker has been written with that error by the time the handler that
\* rejected the promise returns; the write comes right before the rejecter
\* call, except in the driver result stream's listener, where it comes
\* right after it.
C7_MarkedWhenFailureObserved ==
    (promise.state = "rejected" /\ CatalogPrefixAtZero(promise.value.message)) =>
        /\ log[SettlingReject].val = promise.value
        /\ IF log[SettlingReject - 1].ev = "queryStream error"
           THEN /\ log[SettlingReject + 1] = Ev("emit", promise.value, Undefined)
                /\ log[SettlingReject + 2] = Ev("dispose", promise.value, Undefined)
           ELSE log[SettlingReject - 1] = Ev("dispose", promise.value, Undefined)

\* C7 witness: a _stream call failed by a fatal error of the driver result
\* stream, the connection marked with it
C7_Witness ==
    /\ pc = "streaming"
    /\ promise.state = "rejected"
    /\ CatalogPrefixAtZero(promise.value.message)
    /\ log[SettlingReject - 1].ev = "queryStream error"
    /\ connection.__knex__disposed = promise.value

\* the slot the claim reads the j-th identifier from (j counted from 1)
ClaimedSlot(j) == IF j = 1 THEN "returnParam" ELSE "returnParam" \o ToString(j)

\* the slot the j-th identifier is read from (j counted from 1)
ActualSlot(j) == IF j = 1 THEN "returnParam" ELSE "returnParam" \o ToString(j - 1)

\* the first answer, and the bindings of the follow-up execute
FirstAnswer == log[SetMin(At("answer"))].val

FollowUpRowIds == log[SetMax(At("execute"))].aux

\* C8, as claimed: the follow-up execute is bound to one identifier per entry
\* of outParams, the first read from the slot with no suffix, the following
\* ones from the slots suffixed 2, 3, ...
C8_SlotsSuffixedFromTwo ==
    (InQuery /\ Cardinality(At("execute")) = 2) =>
        /\ FollowUpRowIds.type = "array"
        /\ Len(FollowUpRowIds.items) = Len(obj.outParams.items)
        /\ \A j \in 1..Len(FollowUpRowIds.items) :
              FollowUpRowIds.items[j] = Get(FirstAnswer, ClaimedSlot(j))

\* C8, amended: the follow-up execute is bound to one identifier per entry of
\* outParams, in order, the first read from the slot with no suffix, the
\* following ones from the slots suffixed 1, 2, ... (the entry's index
\* counted from 0).
C8_SlotsSuffixedByIndex ==
    (InQuery /\ Cardinality(At("execute")) = 2) =>
        /\ FollowUpRowIds.type = "array"
        /\ Len(FollowUpRowIds.items) = Len(obj.outParams.items)
        /\ \A j \in 1..Len(FollowUpRowIds.items) :
              FollowUpRowIds.items[j] = Get(FirstAnswer, ActualSlot(j))

\* C8 witness: a follow-up execute bound to three distinct identifiers
C8_Witness ==
    /\ pc = "exec2"
    /\ Len(obj.outParams.items) = 3
    /\ FollowUpRowIds = Arr(<<Str("AAAa"), Str("AAAb"), Str("AAAc")>>)

\* the descriptor has been normalized by the built-in rules
Normalized(methods) ==
    pc = "normalized" /\ ~Truthy(obj.output) /\ obj.method \in methods

\* the values of one column across the rows of a response
ColumnOf(response, column) ==
    Arr([i \in 1..Len(response.items) |-> Get(response.items[i], column)])

C10_PluckWhenSet ==
    Normalized({"select", "pluck", "first"}) =>
        LET rows == IF Truthy(obj.pluck) THEN ColumnOf(obj.response, obj.pluck.s)
                    ELSE obj.response
        IN  IF obj.method = "first"
            THEN result = (IF rows.items = <<>> THEN Undefined ELSE rows.items[1])
            ELSE result = rows

\* C10, amended: for select, pluck and first without a custom transform, the
\* rows are mapped to the column obj.pluck designates if the method is pluck,
\* and are not mapped for select and first even when obj.pluck is set; select
\* and pluck then return the whole sequence, first its first element, or
\* undefined when there is none.
C10_PluckWhenMethodIsPluck ==
    Normalized({"select", "pluck", "first"}) =>
        CASE obj.method = "select" -> result = obj.response
          [] obj.method = "pluck" ->
                result = (IF Truthy(obj.pluck) THEN ColumnOf(obj.response, obj.pluck.s)
                          ELSE obj.response)
          [] obj.method = "first" ->
                result = (IF obj.response.items = <<>> THEN Undefined
                          ELSE obj.response.items[1])

\* C10 witness: a pluck of "name" over two rows of two columns normalized to
\* the two names
C10_Witness ==
    /\ Normalized({"pluck"})
    /\ obj.pluck = Str("name")
    /\ Len(obj.response.items) = 2
    /\ \A i \in 1..2 : obj.response.items[i].keys = AllColumns
    /\ result = Arr(<<Str("ann"), Str("bob")>>)

\* the placeholders of a text before position k
QuestionsBefore(sql, k) == Cardinality({ j \in 1..(k - 1) : sql[j] = "?" })

\* C11: positionBindings replaces the i-th '?' of a text (of at most nine)
\* by ':' and the digit i, keeps every other character in its order, returns
\* a text without '?' unchanged, and applied to its own result returns it
\* unchanged.
C11_MarkersNumberedInOrder ==
    /\ pc \in {"positioned", "repositioned"} =>
          LET once == IF pc = "positioned" THEN result ELSE log[1]
          IN  /\ Len(once) = Len(obj) + QuestionsBefore(obj, Len(obj) + 1)
              /\ \A k \in 1..Len(obj) :
                    LET at == k + QuestionsBefore(obj, k)
                    IN  IF obj[k] = "?"
                        THEN once[at] = ":" /\ once[at + 1] = ToString(QuestionsBefore(obj, k) + 1)
                        ELSE once[at] = obj[k]
              /\ QuestionsBefore(obj, Len(obj) + 1) = 0 => once = obj
    /\ pc = "repositioned" => result = log[1]

\* C11 witness: "?a?" rewritten to ":1a:2", and again to the same
C11_Witness ==
    /\ pc = "repositioned"
    /\ obj = <<"?", "a", "?">>
    /\ result = <<":", "1", "a", ":", "2">>

\* what the claim says one binding becomes
Translated(driver, value) ==
    CASE value = ReturningHelper ->
            IF driver = Undefined THEN value ELSE OutParam(Str("OCCISTRING"))
      [] value = Bool(TRUE) -> Num(1)
      [] value = Bool(FALSE) -> Num(0)
      [] value.type = "buffer" -> Str(value.text)
      [] OTHER -> value

\* C12: prepBindings returns a sequence as long as its input whose i-th
\* element is the translation of the i-th binding alone: a string-typed
\* output parameter for a returning placeholder when the driver is loaded
\* and the placeholder itself when it is not, 1 for true, 0 for false, the
\* text of a buffer, the value itself otherwise; translating the result
\* again leaves what the booleans became as it is.
C12_BindingsTranslatedPointwise ==
    /\ pc \in {"prepared", "prepared again"} =>
          LET once == IF pc = "prepared" THEN result ELSE log[1]
          IN  /\ once.type = "array"
              /\ Len(once.items) = Len(obj.bindings.items)
              /\ \A i \in 1..Len(once.items) :
                    once.items[i] = Translated(obj.driver, obj.bindings.items[i])
    /\ pc = "prepared again" =>
          /\ Len(result.items) = Len(log[1].items)
          /\ \A i \in 1..Len(result.items) :
                obj.bindings.items[i].type = "boolean" => result.items[i] = log[1].items[i]

\* C12 witness: a placeholder and true translated with the driver loaded,
\* then translated again
C12_Witness ==
    /\ pc = "prepared again"
    /\ obj.driver = Driver
    /\ obj.bindings = Arr(<<ReturningHelper, Bool(TRUE)>>)
    /\ result = Arr(<<OutParam(Str("OCCISTRING")), Num(1)>>)

\* the history of the call of acquireRawConnection in progress or last made
CallLog == SubSeq(log, SetMax(At("connect")), Len(log))

CallAt(ev) == { i \in 1..Len(CallLog) : CallLog[i].ev = ev }

\* C13: every call of acquireRawConnection makes one driver.connect and no
\* other; when the driver fails, the promise is rejected with the driver's
\* error and no connection is handed out; when it succeeds, the prefetch row
\* count is set on the connection exactly when the settings carry one, and
\* before the promise is resolved with the connection.
C13_OneConnectAttempt ==
    /\ Cardinality(At("connect")) = ops + (IF pc \in {"connecting", "connected", "connect failed"} THEN 1 ELSE 0)
    /\ pc = "connect failed" =>
          /\ \E err \in DriverErrors :
                /\ CallLog[2] = Ev("connect error", err, Undefined)
                /\ promise = Rejected(err)
          /\ connection = Undefined
          /\ CallAt("resolve") = {}
    /\ pc = "connected" =>
          /\ promise = [state |-> "fulfilled", value |-> connection]
          /\ CallAt("connect error") = {}
          /\ IF obj.prefetchRowCount # Undefined
             THEN /\ connection.prefetchRowCount = obj.prefetchRowCount
                  /\ \E i \in CallAt("setPrefetchRowCount") :
                        /\ CallLog[i].val = obj.prefetchRowCount
                        /\ \A j \in CallAt("resolve") : i < j
             ELSE /\ connection.prefetchRowCount = Undefined
                  /\ CallAt("setPrefetchRowCount") = {}

\* C13 witness: a failed call followed by a successful one that set the
\* prefetch row count
C13_Witness ==
    /\ pc = "connected"
    /\ ops = 1
    /\ At("connect error") # {}
    /\ connection.prefetchRowCount = Num(100)

\* the follow-up fetch of a _query failed after the first execute succeeded
FollowUpFailed ==
    /\ pc = "done"
    /\ Cardinality(At("execute")) = 2
    /\ \E i \in At("error") : SetMax(At("execute")) < i

\* C14, as claimed: when the follow-up fetch fails, the promise is rejected
\* and obj.rowsAffected holds the update count of the first response.
C14_FirstCountPreserved ==
    FollowUpFailed =>
        /\ promise.state = "rejected"
        /\ obj.rowsAffected = Get(FirstAnswer, "updateCount")

\* C14, amended: when the follow-up fetch fails, the promise is rejected with
\* the follow-up's error and the descriptor is left as it was handed in:
\* obj.response and obj.rowsAffected are not set, the update count of the
\* first response is not kept.
C14_DescriptorUntouched ==
    FollowUpFailed =>
        /\ promise = Rejected(log[SetMax(At("error"))].val)
        /\ obj.rowsAffected = Undefined
        /\ obj.response = Undefined

\* C14 witness: the follow-up fetch failed after a first response that
\* carried an update count
C14_Witness ==
    /\ FollowUpFailed
    /\ Get(FirstAnswer, "updateCount") = Num(1)
    /\ promise.state = "rejected"
    /\ obj.rowsAffected = Undefined

\* the error events an operation observed: a failed round-trip, an error of
\* the sink, an error of the driver result stream
ObservedErrors == At("error") \cup At("sink error") \cup At("queryStream error")

\* the writes of the marker that followed the error observed at i, before
\* the next error was observed
DisposesAfter(i) ==
    { j \in At("dispose") : i < j /\ \A k \in ObservedErrors : k <= i \/ j < k }

\* C15: within one run, every write of connection.__knex__disposed follows an
\* observed error and stores that error; a connection-fatal error is followed
\* by at most one write (also when the driver result stream's error is
\* re-emitted to the sink), any other error by none; and no step changes
\* anything of the connection but that marker.
C15_OneWritePerFatalError ==
    /\ [](/\ \A i \in ObservedErrors :
               /\ Cardinality(DisposesAfter(i)) <= (IF CatalogPrefixAtZero(log[i].val.message) THEN 1 ELSE 0)
               /\ \A j \in DisposesAfter(i) : log[j].val = log[i].val
          /\ \A j \in At("dispose") : \E i \in ObservedErrors : j \in DisposesAfter(i))
    /\ [][connection' = [connection EXCEPT !.__knex__disposed = connection'.__knex__disposed]]_vars

\* C15 witness: a connection-fatal error of the driver result stream was
\* re-emitted to the sink and the marker was written once for it
C15_Witness ==
    /\ pc = "streaming"
    /\ \E i \in At("queryStream error") :
        /\ CatalogPrefixAtZero(log[i].val.message)
        /\ \E k \in At("emit") : i < k /\ log[k].val = log[i].val
        /\ Cardinality(DisposesAfter(i)) = 1
        /\ connection.__knex__disposed = log[i].val

\* the calls of resolve and of reject the current operation has made
Outcomes == At("resolve") \cup At("reject")

\* C16: with a driver that answers every execute, a _query call that got past
\* the check of its sql reaches "done" with its promise settled; there the
\* promise is fulfilled with the descriptor or rejected with an error, by a
\* single outcome; no more than two executes are ever issued; and a call in
\* flight is left only by an answer of the driver, never given up.
C16_QueryTerminates ==
    /\ (pc \in {"exec1", "exec2"}) ~> (pc = "done" /\ promise.state \in {"fulfilled", "rejected"})
    /\ [](InQuery => Cardinality(At("execute")) <= 2)
    /\ []((pc = "done" /\ promise.state # "thrown") =>
            /\ Cardinality(Outcomes) = 1
            /\ \/ promise.state = "fulfilled" /\ promise.value = obj
               \/ promise.state = "rejected" /\ promise.value.type = "error")
    /\ [][(pc \in {"exec1", "exec2"}) =>
            (pc' \in {"exec2", "done"} /\ (pc' = "exec2" => promise' = Pending))]_vars

\* C16 witness: a call that issued two executes settled with one outcome
C16_Witness ==
    /\ pc = "done"
    /\ Cardinality(At("execute")) = 2
    /\ Cardinality(Outcomes) = 1
    /\ promise.state = "fulfilled"
    /\ promise.value = obj

\* C17: in _stream, a step that delivers an error to the sink (the sink's own
\* error, or an error of the driver result stream re-emitted to it) whose
\* message starts with a catalog prefix sets connection.__knex__disposed to
\* that error, whether the promise was still pending or already settled; the
\* promise of a call that had its outcome keeps it.
C17_LateFatalErrorMarks ==
    [][ \A err \in DriverErrors :
          (/\ pc = "streaming"
           /\ pc' = "streaming"
           /\ CatalogPrefixAtZero(err.message)
           /\ \E i \in (Len(log) + 1)..Len(log') :
                log'[i] \in {Ev("sink error", err, Undefined), Ev("emit", err, Undefined)})
          => (/\ connection'.__knex__disposed = err
              /\ (promise.state # "pending" => promise' = promise)) ]_vars

\* C17 witness: the sink ended, the call was reported successful, and a
\* connection-fatal error of the sink that arrived later marked the connection
C17_Witness ==
    /\ pc = "streaming"
    /\ promise.state = "fulfilled"
    /\ \E i \in At("end") : \E j \in At("sink error") :
        /\ i < j
        /\ j = SetMax(ObservedErrors)
        /\ CatalogPrefixAtZero(log[j].val.message)
        /\ connection.__knex__disposed = log[j].val

\* C18: over any sequence of operations, a marker that is set holds an error
\* whose message starts with a catalog prefix; a step that observes such an
\* error leaves the marker holding it, and every other step (a success, a
\* failure with another error, the start of a call, the hand-over to the
\* next operation) leaves the marker as it was, so it is never cleared.
C18_MarkerNeverCleared ==
    /\ [](connection.__knex__disposed # Undefined =>
            /\ connection.__knex__disposed.type = "error"
            /\ CatalogPrefixAtZero(connection.__knex__disposed.message))
    /\ [][ (LET fatal == { i \in (Len(log) + 1)..Len(log') :
                            /\ log'[i].ev \in {"error", "sink error", "queryStream error"}
                            /\ CatalogPrefixAtZero(log'[i].val.message) }
            IN  IF fatal = {}
                THEN connection'.__knex__disposed = connection.__knex__disposed
                ELSE connection'.__knex__disposed = log'[SetMax(fatal)].val) ]_vars

\* C18 witness: on a connection an earlier operation had marked, a later
\* query completed and the marker is still the earlier error
C18_Witness ==
    /\ ops >= 1
    /\ pc = "done"
    /\ promise.state = "fulfilled"
    /\ ObservedErrors = {}
    /\ connection.__knex__disposed # Undefined
    /\ CatalogPrefixAtZero(connection.__knex__disposed.message)

====
